---- MODULE Spec2Model ----
(***************************************************************************)
(* petersplain, src/main.py: text -> speech with per-character timing ->   *)
(* word-level subtitles -> composed video.                                 *)
(*                                                                         *)
(* The model follows the script statement by statement.  The segmenter     *)
(* create_subtitle_list is unfolded into one action per loop iteration     *)
(* (ScanChar) and one for the code after the loop (HandleLastWord); the    *)
(* __main__ block is one action per external effect.                       *)
(*                                                                         *)
(* Time stamps are Python floats.  They are modelled as binary floating    *)
(* point numbers with Precision significant bits (instead of 53), counted  *)
(* in ticks, with round-half-to-even: every subtraction and addition the   *)
(* code performs on them goes through Round.                               *)
(***************************************************************************)
EXTENDS Integers, Sequences, FiniteSets, TLC

\* ---------------------------------------------------------------- bounds
MaxLen == 3        \* longest character / timing sequence
MaxTime == 2       \* largest time stamp of the general inputs (ticks)
MaxStamp == 16     \* largest time stamp of the well-formed inputs (ticks)
Precision == 3     \* significant bits of a float (53 in CPython)

\* ------------------------------------------------------- float arithmetic
RECURSIVE Pow2(_)
Pow2(n) == IF n = 0 THEN 1 ELSE 2 * Pow2(n - 1)

\* The spacing of the floats around x >= 0: the least power of two u with
\* x < 2^Precision * u.
RECURSIVE UlpFrom(_, _)
UlpFrom(x, u) == IF x < Pow2(Precision) * u THEN u ELSE UlpFrom(x, 2 * u)

RoundNonNeg(x) ==
    LET u == UlpFrom(x, 1)
        q == x \div u
        r == x % u
    IN  IF 2 * r < u THEN q * u
        ELSE IF 2 * r > u THEN (q + 1) * u
        ELSE IF q % 2 = 0 THEN q * u ELSE (q + 1) * u

\* Round to the nearest float, ties to the even mantissa.
Round(x) == IF x < 0 THEN 0 - RoundNonNeg(0 - x) ELSE RoundNonNeg(x)

\* end_time - start_time
FSub(a, b) == Round(a - b)

\* start + duration, last_subtitle_end + 2
FAdd(a, b) == Round(a + b)

IsFloat(t) == Round(t) = t

\* ------------------------------------------------------------- characters
Space == " "
Tab == "\t"
Chars == {"a", Space, Tab}
Whitespace == {Space, Tab}          \* str.isspace() on the alphabet

\* A plausible slip: any whitespace separates words.
IsSeparatorAnySpace(char) == char \in Whitespace

\* char.isspace() and char == " "
IsSeparator(char) == char \in Whitespace /\ char = Space

\* str.strip(): leading and trailing whitespace removed.
RECURSIVE LStrip(_)
LStrip(text) ==
    IF text # <<>> /\ Head(text) \in Whitespace THEN LStrip(Tail(text)) ELSE text

RECURSIVE RStrip(_)
RStrip(text) ==
    IF text # <<>> /\ text[Len(text)] \in Whitespace
    THEN RStrip(SubSeq(text, 1, Len(text) - 1))
    ELSE text

Strip(text) == RStrip(LStrip(text))

\* ------------------------------------------------------------------ state
VARIABLES
    pc,              \* position of the script
    templates,       \* os.listdir("templates")
    alignment,       \* the timestamps dict of generate_voice_with_timestamps
    i,               \* create_subtitle_list: index of the next character
    words,           \* create_subtitle_list: characters of the word in progress
    start_time,      \* create_subtitle_list: start of the word in progress
    subtitles,       \* create_subtitle_list: the entries emitted so far
    video_path,      \* the template chosen
    video_duration,  \* last_subtitle_end + 2
    temp_mp3,        \* whether out/__temp.mp3 exists
    output_written,  \* whether out/<output> has been written
    log,             \* the external effects performed so far, in order
    error            \* the exception that ended the run, if any

vars == <<pc, templates, alignment, i, words, start_time, subtitles, video_path,
          video_duration, temp_mp3, output_written, log, error>>

None == 0 - 1                        \* Python's None, for a time
NoPath == ""                         \* no template chosen yet
NoError == "none"
TemplateNames == {"bg1.mp4", "bg2.mp4"}

characters == alignment.characters
character_start_times_seconds == alignment.character_start_times_seconds
character_end_times_seconds == alignment.character_end_times_seconds

\* ----------------------------------------------------------------- inputs
SeqsUpTo(S, n) == UNION {[1..k -> S] : k \in 0..n}

Times == {t \in 0..MaxTime : IsFloat(t)}
Stamps == {t \in 0..MaxStamp : IsFloat(t)}

\* create_subtitle_list reads character_end_times_seconds only through its
\* length and its element at the last index.  The inputs enumerate every
\* length and every last element; an earlier character ends where the next one
\* starts, as in the alignments the speech service returns.
EndTimes(starts, n, last) ==
    [k \in 1..n |-> IF k < n /\ k + 1 <= Len(starts) THEN starts[k + 1] ELSE last]

Alignment(chars, starts, ends) ==
    [characters |-> chars,
     character_start_times_seconds |-> starts,
     character_end_times_seconds |-> ends]

NonDecreasing(s) == \A k \in 1..(Len(s) - 1) : s[k] <= s[k + 1]

EndsAfterStarts(starts, ends) ==
    \A k \in 1..Len(starts) : k <= Len(ends) => ends[k] >= starts[k]

WordChars == {"a", Space}

\* ------------------------------------------------- create_subtitle_list
Entry(text, start, duration) ==
    [text |-> text, start_time |-> start, duration |-> duration]

\* A plausible slip: >= in place of >.
IsValidEntryNonStrict(duration, text) == duration >= 0 /\ Strip(text) # <<>>

\* duration > 0 and text.strip()
IsValidEntry(duration, text) == duration > 0 /\ Strip(text) # <<>>

\* A plausible slip: insert(0, ...) in place of append.
EmitFirst(subs, text, start, duration) ==
    IF IsValidEntry(duration, text)
    THEN <<Entry(text, start, duration)>> \o subs
    ELSE subs

\* if duration > 0 and text.strip(): subtitles.append((text, start_time, duration))
Emit(subs, text, start, duration) ==
    IF IsValidEntry(duration, text)
    THEN Append(subs, Entry(text, start, duration))
    ELSE subs

\* A plausible slip: the buffer is not cleared when a word is closed.
WordsKept == words

\* words = []
WordsAfterClose == <<>>

\* A plausible slip: the start time is not cleared when a word is closed.
StartTimeKept == start_time

\* start_time = None
StartTimeAfterClose == None

\* A plausible slip: the last word is closed with a start time.
LastWordEndFromStarts(last) == character_start_times_seconds[last + 1]

\* end_time = alignment["character_end_times_seconds"][i]   (after the loop)
LastWordEnd(last) == character_end_times_seconds[last + 1]

Raise(exc) ==
    /\ pc' = "failed"
    /\ error' = exc

main_vars == <<templates, alignment, video_path, video_duration, temp_mp3,
               output_written, log>>

\* One iteration of `for i, char in enumerate(alignment["characters"])`.
ScanChar ==
    /\ pc = "scan"
    /\ i < Len(characters)
    /\ LET char == characters[i + 1] IN
        IF IsSeparator(char)
        THEN IF words # <<>> /\ start_time # None
             THEN IF i >= Len(character_start_times_seconds)
                  THEN \* the unguarded lookup raises IndexError
                       /\ Raise("IndexError")
                       /\ UNCHANGED <<i, words, start_time, subtitles>>
                  ELSE LET end_time == character_start_times_seconds[i + 1]
                           duration == FSub(end_time, start_time)
                       IN  /\ subtitles' = Emit(subtitles, words, start_time, duration)
                           /\ words' = WordsAfterClose
                           /\ start_time' = StartTimeAfterClose
                           /\ i' = i + 1
                           /\ UNCHANGED <<pc, error>>
             ELSE /\ i' = i + 1
                  /\ UNCHANGED <<pc, error, words, start_time, subtitles>>
        ELSE /\ start_time' =
                    IF start_time = None /\ i < Len(character_start_times_seconds)
                    THEN character_start_times_seconds[i + 1]
                    ELSE start_time
             /\ words' = Append(words, char)
             /\ i' = i + 1
             /\ UNCHANGED <<pc, error, subtitles>>
    /\ UNCHANGED main_vars

\* The code after the loop; `i` of the code is the last index, i - 1 here.
HandleLastWord ==
    /\ pc = "scan"
    /\ i = Len(characters)
    /\ LET last == i - 1 IN
        IF words # <<>> /\ start_time # None /\ last < Len(character_end_times_seconds)
        THEN LET end_time == LastWordEnd(last)
                 duration == FSub(end_time, start_time)
             IN  subtitles' = Emit(subtitles, words, start_time, duration)
        ELSE subtitles' = subtitles
    /\ pc' = "returned"
    /\ UNCHANGED <<i, words, start_time, error>>
    /\ UNCHANGED main_vars

Segmenter == ScanChar \/ HandleLastWord

\* create_subtitle_list called on alignment `a`.
InitCall(a) ==
    /\ pc = "scan"
    /\ templates = TemplateNames
    /\ alignment = a
    /\ i = 0
    /\ words = <<>>
    /\ start_time = None
    /\ subtitles = <<>>
    /\ video_path = NoPath
    /\ video_duration = None
    /\ temp_mp3 = FALSE
    /\ output_written = FALSE
    /\ log = <<>>
    /\ error = NoError

\* Three parallel sequences of equal length.
InitEqual ==
    \E n \in 0..MaxLen :
        \E chars \in [1..n -> Chars], starts \in [1..n -> Times], last \in Times :
            InitCall(Alignment(chars, starts, EndTimes(starts, n, last)))

\* Any combination of lengths.
InitAnyShape ==
    \E n \in 0..MaxLen, ns \in 0..MaxLen, ne \in 0..MaxLen :
        \E chars \in [1..n -> Chars], starts \in [1..ns -> Times], last \in Times :
            InitCall(Alignment(chars, starts, EndTimes(starts, ne, last)))

\* Equal length, start times non-decreasing, every end >= its start.
InitWellFormed ==
    \E n \in 0..MaxLen :
        \E chars \in [1..n -> WordChars], starts \in [1..n -> Stamps], last \in Stamps :
            /\ NonDecreasing(starts)
            /\ EndsAfterStarts(starts, EndTimes(starts, n, last))
            /\ InitCall(Alignment(chars, starts, EndTimes(starts, n, last)))

\* create_subtitle_list on equal-length input.
SpecEqual == InitEqual /\ [][Segmenter]_vars
\* create_subtitle_list on input of any shape.
SpecAnyShape == InitAnyShape /\ [][Segmenter]_vars
\* create_subtitle_list on well-formed input.
SpecWellFormed == InitWellFormed /\ [][Segmenter]_vars

\* ---------------------------------------------------------------- __main__
seg_vars == <<i, words, start_time, subtitles>>

RECURSIVE MaxOf(_)
MaxOf(xs) ==
    IF Len(xs) = 1 THEN xs[1]
    ELSE LET m == MaxOf(Tail(xs)) IN IF xs[1] >= m THEN xs[1] ELSE m

\* start + duration for _, start, duration in subtitles
SubtitleEnds(subs) == [k \in 1..Len(subs) |-> FAdd(subs[k].start_time, subs[k].duration)]

\* generate_voice_with_timestamps: the network call, which returns the audio
\* and an alignment, or fails.
GenerateVoice ==
    /\ pc = "start"
    /\ log' = Append(log, "synthesize")
    /\ \/ /\ \E n \in 0..MaxLen :
                \E chars \in [1..n -> Chars], starts \in [1..n -> Times], last \in Times :
                    alignment' = Alignment(chars, starts, EndTimes(starts, n, last))
          /\ pc' = "scan"
          /\ UNCHANGED error
       \/ /\ Raise("ApiError")
          /\ UNCHANGED alignment
    /\ UNCHANGED <<templates, video_path, video_duration, temp_mp3, output_written>>
    /\ UNCHANGED seg_vars

\* video_path = random.choice(os.listdir("templates")), IndexError turned
\* into Exception("No templates found in templates/").
ChooseTemplate ==
    /\ pc = "returned"
    /\ IF templates = {}
       THEN /\ Raise("NoTemplates")
            /\ UNCHANGED video_path
       ELSE /\ video_path' \in templates
            /\ pc' = "open_video"
            /\ UNCHANGED error
    /\ UNCHANGED <<templates, alignment, video_duration, temp_mp3, output_written, log>>
    /\ UNCHANGED seg_vars

\* VideoFileClip(...), crop_video_to_tiktok, add_peter_image, and the
\* subtitle clips: the video library opens the template, or fails.
OpenVideo ==
    /\ pc = "open_video"
    /\ log' = Append(log, "open_video")
    /\ \/ /\ pc' = "duration"
          /\ UNCHANGED error
       \/ Raise("VideoError")
    /\ UNCHANGED <<templates, alignment, video_path, video_duration, temp_mp3,
                   output_written>>
    /\ UNCHANGED seg_vars

\* last_subtitle_end = max(...); video.with_duration(last_subtitle_end + 2).
\* max() of an empty sequence raises ValueError.
SetDuration ==
    /\ pc = "duration"
    /\ IF subtitles = <<>>
       THEN /\ Raise("ValueError")
            /\ UNCHANGED video_duration
       ELSE /\ video_duration' = FAdd(MaxOf(SubtitleEnds(subtitles)), 2)
            /\ pc' = "write_temp"
            /\ UNCHANGED error
    /\ UNCHANGED <<templates, alignment, video_path, temp_mp3, output_written, log>>
    /\ UNCHANGED seg_vars

\* with open("out/__temp.mp3", "wb") as f: f.write(audio)
WriteTempAudio ==
    /\ pc = "write_temp"
    /\ temp_mp3' = TRUE
    /\ log' = Append(log, "write_temp")
    /\ pc' = "read_temp"
    /\ UNCHANGED <<templates, alignment, video_path, video_duration, output_written,
                   error>>
    /\ UNCHANGED seg_vars

\* audio_clip = AudioFileClip("out/__temp.mp3")
ReadTempAudio ==
    /\ pc = "read_temp"
    /\ log' = Append(log, "read_temp")
    /\ IF temp_mp3
       THEN /\ pc' = "remove_temp"
            /\ UNCHANGED error
       ELSE Raise("FileNotFoundError")
    /\ UNCHANGED <<templates, alignment, video_path, video_duration, temp_mp3,
                   output_written>>
    /\ UNCHANGED seg_vars

\* A plausible slip: the temporary file is left behind.
RemoveTempAudioSkipped ==
    /\ pc = "remove_temp"
    /\ log' = Append(log, "remove_temp")
    /\ pc' = "export"
    /\ UNCHANGED <<templates, alignment, video_path, video_duration, temp_mp3,
                   output_written, error>>
    /\ UNCHANGED seg_vars

\* os.remove("out/__temp.mp3")
RemoveTempAudio ==
    /\ pc = "remove_temp"
    /\ temp_mp3' = FALSE
    /\ log' = Append(log, "remove_temp")
    /\ pc' = "export"
    /\ UNCHANGED <<templates, alignment, video_path, video_duration, output_written,
                   error>>
    /\ UNCHANGED seg_vars

\* CompositeVideoClip, with_audio, write_videofile: the export, which writes
\* the output file, or fails.
Export ==
    /\ pc = "export"
    /\ log' = Append(log, "export")
    /\ \/ /\ output_written' = TRUE
          /\ pc' = "close"
          /\ UNCHANGED error
       \/ /\ Raise("VideoError")
          /\ UNCHANGED output_written
    /\ UNCHANGED <<templates, alignment, video_path, video_duration, temp_mp3>>
    /\ UNCHANGED seg_vars

\* audio_clip.close(); video.close(); final_video.close(); exit status 0.
CleanUp ==
    /\ pc = "close"
    /\ pc' = "done"
    /\ UNCHANGED <<templates, alignment, video_path, video_duration, temp_mp3,
                   output_written, log, error>>
    /\ UNCHANGED seg_vars

\* The state after the module-level statements: the directories exist, the
\* client is constructed, the arguments are parsed.
Init ==
    /\ pc = "start"
    /\ templates \in {{}, TemplateNames}
    /\ alignment = Alignment(<<>>, <<>>, <<>>)
    /\ i = 0
    /\ words = <<>>
    /\ start_time = None
    /\ subtitles = <<>>
    /\ video_path = NoPath
    /\ video_duration = None
    /\ temp_mp3 = FALSE
    /\ output_written = FALSE
    /\ log = <<>>
    /\ error = NoError

Next ==
    \/ GenerateVoice
    \/ ScanChar
    \/ HandleLastWord
    \/ ChooseTemplate
    \/ OpenVideo
    \/ SetDuration
    \/ WriteTempAudio
    \/ ReadTempAudio
    \/ RemoveTempAudio
    \/ Export
    \/ CleanUp

\* One run of the script.
Spec == Init /\ [][Next]_vars

\* ------------------------------------------------------------------ claims
Returned == pc = "returned"

\* The maximal runs of non-space characters, in input order.
RECURSIVE RunEnd(_, _)
RunEnd(chars, j) ==
    IF j < Len(chars) /\ chars[j + 1] # Space THEN RunEnd(chars, j + 1) ELSE j

RECURSIVE RunsFrom(_, _)
RunsFrom(chars, j) ==
    IF j > Len(chars) THEN <<>>
    ELSE IF chars[j] = Space THEN RunsFrom(chars, j + 1)
    ELSE <<[first |-> j, last |-> RunEnd(chars, j)]>>
            \o RunsFrom(chars, RunEnd(chars, j) + 1)

Runs(chars) == RunsFrom(chars, 1)

TrimmedNonEmpty(text) == \E k \in 1..Len(text) : text[k] \notin Whitespace

SortedByStart(subs) ==
    \A k \in 1..(Len(subs) - 1) : subs[k].start_time <= subs[k + 1].start_time

\* Whether xs is a subsequence of ys.
RECURSIVE IsSubsequence(_, _)
IsSubsequence(xs, ys) ==
    IF xs = <<>> THEN TRUE
    ELSE IF ys = <<>> THEN FALSE
    ELSE IF Head(xs) = Head(ys) THEN IsSubsequence(Tail(xs), Tail(ys))
    ELSE IsSubsequence(xs, Tail(ys))

\* The words of the input that have a start time, as (text, start), in input
\* order.
RECURSIVE WordsOf(_, _)
WordsOf(a, runs) ==
    IF runs = <<>> THEN <<>>
    ELSE (IF Head(runs).first <= Len(a.character_start_times_seconds)
          THEN <<[text |-> SubSeq(a.characters, Head(runs).first, Head(runs).last),
                  start_time |-> a.character_start_times_seconds[Head(runs).first]]>>
          ELSE <<>>)
         \o WordsOf(a, Tail(runs))

TextAndStart(subs) ==
    [k \in 1..Len(subs) |-> [text |-> subs[k].text, start_time |-> subs[k].start_time]]

InInputOrder == IsSubsequence(TextAndStart(subtitles), WordsOf(alignment, Runs(characters)))

\* The reference of C4 on an equal-length alignment.
RECURSIVE ReferenceOf(_, _)
ReferenceOf(a, runs) ==
    IF runs = <<>> THEN <<>>
    ELSE LET r == Head(runs)
             n == Len(a.characters)
             text == SubSeq(a.characters, r.first, r.last)
             start == a.character_start_times_seconds[r.first]
             end == IF r.last < n
                    THEN a.character_start_times_seconds[r.last + 1]
                    ELSE a.character_end_times_seconds[n]
             duration == FSub(end, start)
         IN  (IF duration > 0 /\ TrimmedNonEmpty(text)
              THEN <<Entry(text, start, duration)>>
              ELSE <<>>)
             \o ReferenceOf(a, Tail(runs))

Reference == ReferenceOf(alignment, Runs(characters))

\* C1: create_subtitle_list raises no exception for any input shape: whatever
\* the three lengths, the call never ends in an exception.
C1_NoException == error = NoError

\* C2: on equal-length input every emitted entry has duration > 0 and a text
\* that is non-empty after trimming; a word of zero or negative duration is
\* never in the output.
C2_EntriesValid ==
    \A k \in 1..Len(subtitles) :
        subtitles[k].duration > 0 /\ TrimmedNonEmpty(subtitles[k].text)

\* A word of an equal-length input was dropped for its duration alone.
C2_Witness ==
    /\ Returned
    /\ \A k \in 1..Len(characters) : characters[k] \in {"a", Space}
    /\ Len(Runs(characters)) = 2
    /\ Len(subtitles) = 1

\* C3 as stated: for all inputs the returned entries are in non-decreasing
\* start_time order.
C3_SortedForAllInputs == SortedByStart(subtitles)

\* C3 amended: the entries are in the order in which their words occur in the
\* character sequence, and they are in non-decreasing start_time order when
\* the start times of the input are non-decreasing.
C3_InputOrder ==
    /\ InInputOrder
    /\ NonDecreasing(character_start_times_seconds) => SortedByStart(subtitles)

\* Two words were emitted in input order while their start times decrease.
C3_Witness ==
    /\ Returned
    /\ Len(subtitles) = 2
    /\ subtitles[1].start_time > subtitles[2].start_time

\* C4: on equal-length input the output equals the reference: one entry per
\* maximal run of non-space characters, closed by the start time of the space
\* after it or by the end time of the last character, kept if valid.
C4_EqualsReference == Returned => subtitles = Reference

\* Both ways of closing a word produced an entry.
C4_Witness ==
    /\ Returned
    /\ Len(subtitles) = 2
    /\ characters[Len(characters)] # Space

\* C5: only the ASCII space closes a word.  A tab neither ends the word in
\* progress nor resets its start time, it is appended to the word; no returned
\* text contains a space, and a run of tabs alone produces no entry.
C5_OnlySpaceSeparates ==
    /\ \A k \in 1..Len(words) :
            /\ words[k] # Space
            /\ words[k] = characters[i - Len(words) + k]
    /\ i - Len(words) > 0 => characters[i - Len(words)] = Space
    /\ words # <<>> => start_time = character_start_times_seconds[i - Len(words) + 1]
    /\ \A k \in 1..Len(subtitles) :
            /\ \A j \in 1..Len(subtitles[k].text) : subtitles[k].text[j] # Space
            /\ \E j \in 1..Len(subtitles[k].text) : subtitles[k].text[j] \notin Whitespace

\* A tab inside a word neither closed it nor restarted it: the one entry keeps
\* the tab in its text.
C5_Witness ==
    /\ Returned
    /\ characters = <<"a", Tab, "a">>
    /\ Len(subtitles) = 1
    /\ \E j \in 1..Len(subtitles[1].text) : subtitles[1].text[j] = Tab

\* The runs whose closing the scan has passed: a run followed by a space is
\* closed when that space is scanned, the trailing run when the loop is over.
ClosedRuns ==
    {k \in 1..Len(Runs(characters)) :
        Runs(characters)[k].last < i \/ pc # "scan"}

HasTrailingRun == characters # <<>> /\ characters[Len(characters)] # Space

EqualLengths ==
    /\ Len(character_start_times_seconds) = Len(characters)
    /\ Len(character_end_times_seconds) = Len(characters)

\* The entry of the trailing run, if it is valid.
TrailingEntry ==
    ReferenceOf(alignment, <<Runs(characters)[Len(Runs(characters))]>>)

\* C6: a trailing run of non-space characters is emitted exactly once, and the
\* entries never outnumber the maximal non-space runs: each run gives at most
\* one entry, at the moment it is closed; an input without a space gives at most
\* one entry, which covers the whole input.
C6_AtMostOncePerRun ==
    /\ Len(subtitles) <= Cardinality(ClosedRuns)
    /\ (Returned /\ \A k \in 1..Len(characters) : characters[k] # Space)
            => /\ Len(subtitles) <= 1
               /\ \A k \in 1..Len(subtitles) :
                    /\ subtitles[k].text = characters
                    /\ subtitles[k].start_time = character_start_times_seconds[1]
    /\ (Returned /\ HasTrailingRun /\ EqualLengths /\ TrailingEntry # <<>>)
            => /\ subtitles # <<>>
               /\ subtitles[Len(subtitles)] = TrailingEntry[1]

\* The trailing run after the last space was flushed, once.
C6_Witness ==
    /\ Returned
    /\ HasTrailingRun
    /\ Len(Runs(characters)) = 2
    /\ Len(subtitles) = 2
    /\ subtitles[2].text = SubSeq(characters, Runs(characters)[2].first, Len(characters))

\* C7: with an empty templates directory, the 'no templates' error comes
\* before the speech-synthesis call, before any video is opened and before any
\* file is written.
C7_NoTemplatesBeforeWork == error = "NoTemplates" => log = <<>>

ExternalErrors == {"ApiError", "VideoError"}

\* C8: with a non-empty templates directory, a run fails only if the speech
\* or video call itself fails; otherwise it writes the output file and exits 0.
C8_FailsOnlyExternally ==
    (pc = "failed" /\ templates # {}) => error \in ExternalErrors

Index(xs, x) == CHOOSE k \in 1..Len(xs) : xs[k] = x
Occurs(xs, x) == \E k \in 1..Len(xs) : xs[k] = x
Count(xs, x) == Cardinality({k \in 1..Len(xs) : xs[k] = x})

\* C9: the temporary audio file is written, read back and deleted, in that
\* order and before the export begins; once deleted it does not exist again.
C9_TempAudioLifecycle ==
    /\ \A e \in {"write_temp", "read_temp", "remove_temp", "export"} : Count(log, e) <= 1
    /\ Occurs(log, "read_temp") =>
            Occurs(log, "write_temp") /\ Index(log, "write_temp") < Index(log, "read_temp")
    /\ Occurs(log, "remove_temp") =>
            Occurs(log, "read_temp") /\ Index(log, "read_temp") < Index(log, "remove_temp")
    /\ Occurs(log, "export") =>
            Occurs(log, "remove_temp") /\ Index(log, "remove_temp") < Index(log, "export")
    /\ pc \in {"write_temp"} => ~Occurs(log, "write_temp")
    /\ pc \in {"export", "close", "done"} => Occurs(log, "remove_temp")
    /\ Occurs(log, "remove_temp") => ~temp_mp3
    /\ temp_mp3 <=> (Occurs(log, "write_temp") /\ ~Occurs(log, "remove_temp"))

\* A successful run: exported, and the temporary file is gone.
C9_Witness == pc = "done" /\ output_written /\ ~temp_mp3 /\ Occurs(log, "remove_temp")

\* C10 as stated: on well-formed input, for consecutive entries
\* start_k + duration_k <= start_(k+1), and the maximum of start + duration is
\* the end of the last entry.
C10_NoOverlapBySum ==
    /\ \A k \in 1..(Len(subtitles) - 1) :
            FAdd(subtitles[k].start_time, subtitles[k].duration)
                <= subtitles[k + 1].start_time
    /\ (Returned /\ subtitles # <<>>) =>
            MaxOf(SubtitleEnds(subtitles)) = SubtitleEnds(subtitles)[Len(subtitles)]

\* C10 amended: on well-formed input the start times of consecutive entries
\* increase strictly and each duration is at most the computed difference
\* start_(k+1) - start_k (the computed sum start_k + duration_k may exceed
\* start_(k+1) by a rounding error); the maximum of start + duration is the
\* end of the last entry.
C10_NoOverlapByDifference ==
    /\ \A k \in 1..(Len(subtitles) - 1) :
            /\ subtitles[k].start_time < subtitles[k + 1].start_time
            /\ subtitles[k].duration
                <= FSub(subtitles[k + 1].start_time, subtitles[k].start_time)
    /\ (Returned /\ subtitles # <<>>) =>
            MaxOf(SubtitleEnds(subtitles)) = SubtitleEnds(subtitles)[Len(subtitles)]

\* Two entries whose computed sum start + duration passes the next start.
C10_Witness ==
    /\ Returned
    /\ Len(subtitles) = 2
    /\ FAdd(subtitles[1].start_time, subtitles[1].duration) > subtitles[2].start_time

====
